---- MODULE Spec2Model ----
(***************************************************************************)
(* GateHubClient (packages/wallet/backend/src/gatehub/client.ts): the      *)
(* signed-request transport and the workflows built on it.                 *)
(*                                                                         *)
(* A JavaScript string is a sequence of atoms (TLA+ strings that are never *)
(* split); template literals and Array.join concatenate such sequences.    *)
(* A JavaScript value is a tagged record: undefined, string, number,       *)
(* boolean, array, object (a sequence of <<key, value>> pairs) or function.*)
(***************************************************************************)
EXTENDS Integers, Sequences, FiniteSets, TLC

\* ------------------------------------------------------------- bounds
MaxClock == 1
MaxIframeCalls == 2

\* the slots public methods run in; SpecIframes overlaps two invocations
Procs == {1, 2}

\* ------------------------------------------------------ JavaScript values
Undefined == [t |-> "undefined"]
Str(s) == [t |-> "string", v |-> s]
Num(n) == [t |-> "number", v |-> n, nan |-> FALSE]
Bool(b) == [t |-> "boolean", v |-> b]
Arr(a) == [t |-> "array", v |-> a]
Obj(pairs) == [t |-> "object", v |-> pairs]
NaN == [t |-> "number", v |-> 0, nan |-> TRUE]

\* ToBoolean: undefined, '' and false are falsy; objects and arrays are truthy.
Truthy(x) ==
    CASE x.t = "undefined" -> FALSE
      [] x.t = "string" -> x.v # <<>>
      [] x.t = "boolean" -> x.v
      [] x.t = "number" -> ~x.nan /\ x.v # 0
      [] OTHER -> TRUE

\* typeof x
TypeOf(x) == IF x.t = "array" THEN "object" ELSE x.t

\* obj[key] on a plain data object (own properties only are ever looked for)
Get(obj, key) ==
    IF obj.t = "object" /\ \E i \in 1..Len(obj.v) : obj.v[i][1] = key
    THEN obj.v[CHOOSE i \in 1..Len(obj.v) : obj.v[i][1] = key][2]
    ELSE Undefined

\* Array.prototype.join over strings
RECURSIVE Join(_, _)
Join(parts, sep) ==
    IF parts = <<>> THEN <<>>
    ELSE IF Len(parts) = 1 THEN parts[1]
    ELSE parts[1] \o sep \o Join(Tail(parts), sep)

\* String(x) as a template literal renders it
RECURSIVE TemplateString(_)
TemplateString(x) ==
    CASE x.t = "undefined" -> <<"undefined">>
      [] x.t = "string" -> x.v
      [] x.t = "number" -> IF x.nan THEN <<"NaN">> ELSE <<ToString(x.v)>>
      [] x.t = "boolean" -> IF x.v THEN <<"true">> ELSE <<"false">>
      [] x.t = "array" ->
            Join([i \in 1..Len(x.v) |-> TemplateString(x.v[i])], <<",">>)
      [] OTHER -> <<"[object Object]">>

\* JSON.stringify(x): the text, or Undefined for undefined
RECURSIVE JSONtext(_)
JSONtext(x) ==
    CASE x.t = "string" -> <<"\"">> \o x.v \o <<"\"">>
      [] x.t = "number" -> IF x.nan THEN <<"null">> ELSE <<ToString(x.v)>>
      [] x.t = "boolean" -> IF x.v THEN <<"true">> ELSE <<"false">>
      [] x.t = "array" ->
            <<"[">> \o Join([i \in 1..Len(x.v) |-> JSONtext(x.v[i])], <<",">>)
                    \o <<"]">>
      [] x.t = "object" ->
            <<"{">> \o Join([i \in 1..Len(x.v) |->
                               <<"\"", x.v[i][1], "\"", ":">> \o JSONtext(x.v[i][2])],
                            <<",">>)
                    \o <<"}">>
      [] OTHER -> <<"null">>

JSONstringify(x) == IF x.t = "undefined" THEN Undefined ELSE Str(JSONtext(x))

\* ------------------------------------------- configuration and constants
\* Env (@/config/env): a pre-validated read-only struct; only NODE_ENV varies.
NodeEnvs == {"production", "development", "test"}
GATEHUB_ACCESS_KEY == <<"access-key">>
GATEHUB_SECRET_KEY == <<"secret-key">>
GATEHUB_CARD_APP_ID == <<"card-app-id">>

\* @/gatehub/consts
SANDBOX_CLIENT_IDS ==
    [onOffRamp |-> <<"sandbox-onOffRamp-id">>,
     exchange |-> <<"sandbox-exchange-id">>,
     onboarding |-> <<"sandbox-onboarding-id">>]
PRODUCTION_CLIENT_IDS ==
    [onOffRamp |-> <<"production-onOffRamp-id">>,
     exchange |-> <<"production-exchange-id">>,
     onboarding |-> <<"production-onboarding-id">>]
DEFAULT_APP_SCOPE == Arr(<<Str(<<"default-scope">>)>>)
ONBOARDING_APP_SCOPE == Arr(<<Str(<<"onboarding-scope">>)>>)
PAYMENT_TYPE == [deposit |-> <<"deposit">>, withdrawal |-> <<"withdrawal">>]
HOSTED_WALLET_TYPE == Str(<<"hosted">>)
SUPPORTED_ASSET_CODES == <<"USD", "EUR">>

VARIABLES
    env,          \* this.env
    clientIds,    \* this.clientIds
    mainUrl,      \* this.mainUrl
    now,          \* the clock Date.now() reads
    inv,          \* inv[p]: the invocation of a public method running in slot p
    iframeCalls,  \* getIframeUrl invocations with a recognized kind so far
    tokenCalls    \* requests issued to the iframe token endpoint so far

vars == <<env, clientIds, mainUrl, now, inv, iframeCalls, tokenCalls>>

\* ------------------------------------------------------------ getters
\* a mutant: anything but development counts as production
isProductionNotDevelopment == env.NODE_ENV # "development"

isProduction == env.NODE_ENV = "production"
apiUrl == <<"https://api.", mainUrl>>
rampUrl == <<"https://managed-ramp.", mainUrl>>
exchangeUrl == <<"https://exchange.", mainUrl>>
onboardingUrl == <<"https://onboarding.", mainUrl>>

\* ------------------------------------------------ the signed transport
\* createHmac('sha256', key).update(toSign).digest('hex'), collision free
Hmac(key, toSign) == [alg |-> "sha256", key |-> key, msg |-> toSign]

\* a mutant: the body segment is joined in whenever a body is passed
getSignatureAlwaysBody(timestamp, method, url, body) ==
    Hmac(env.GATEHUB_SECRET_KEY, Join(<<timestamp, method, url, body.v>>, <<"|">>))

getSignature(timestamp, method, url, body) ==
    LET args == IF Truthy(body)
                THEN <<timestamp, method, url, body.v>>
                ELSE <<timestamp, method, url>>
        toSign == Join(args, <<"|">>)
    IN  Hmac(env.GATEHUB_SECRET_KEY, toSign)

\* { ...a, ...b }: the properties of b over those of a
Spread(a, b) == [k \in DOMAIN a \cup DOMAIN b |-> IF k \in DOMAIN b THEN b[k] ELSE a[k]]
NoProps == [k \in {} |-> Undefined]
\* ...(cond && { name: value })
SpreadIf(cond, name, value) == IF Truthy(cond) THEN [k \in {name} |-> value] ELSE NoProps

\* a mutant: a bearer token replaces the signature headers
getRequestHeadersBearerOnly(timestamp, method, url, body, headersOptions) ==
    LET token == Get(headersOptions, "token")
        managedUserUuid == Get(headersOptions, "managedUserUuid")
        cardAppId == Get(headersOptions, "cardAppId")
        signed == [k \in {"x-gatehub-app-id", "x-gatehub-timestamp",
                          "x-gatehub-signature"} |->
                     CASE k = "x-gatehub-app-id" -> env.GATEHUB_ACCESS_KEY
                       [] k = "x-gatehub-timestamp" -> timestamp
                       [] OTHER -> getSignature(timestamp, method, url, body)]
    IN  Spread(Spread(Spread(
            [k \in {"Content-Type"} |-> <<"application/json">>],
            IF Truthy(token)
            THEN [k \in {"Authorization"} |-> <<"Bearer ">> \o TemplateString(token)]
            ELSE signed),
            SpreadIf(managedUserUuid, "x-gatehub-managed-user-uuid",
                     TemplateString(managedUserUuid))),
            SpreadIf(cardAppId, "x-gatehub-card-app-id", TemplateString(cardAppId)))

getRequestHeaders(timestamp, method, url, body, headersOptions) ==
    LET base == [k \in {"Content-Type", "x-gatehub-app-id", "x-gatehub-timestamp",
                        "x-gatehub-signature"} |->
                    CASE k = "Content-Type" -> <<"application/json">>
                      [] k = "x-gatehub-app-id" -> env.GATEHUB_ACCESS_KEY
                      [] k = "x-gatehub-timestamp" -> timestamp
                      [] OTHER -> getSignature(timestamp, method, url, body)]
        managedUserUuid == Get(headersOptions, "managedUserUuid")
        cardAppId == Get(headersOptions, "cardAppId")
        token == Get(headersOptions, "token")
    IN  Spread(Spread(Spread(base,
            SpreadIf(managedUserUuid, "x-gatehub-managed-user-uuid",
                     TemplateString(managedUserUuid))),
            SpreadIf(cardAppId, "x-gatehub-card-app-id", TemplateString(cardAppId))),
            SpreadIf(token, "Authorization", <<"Bearer ">> \o TemplateString(token)))

\* body ?? ''
OrEmpty(body) == IF body.t = "undefined" THEN Str(<<>>) ELSE body

\* request(), lines 384-399: the frame of the call and the config axios is given
requestFrame(method, url, body, headersOptions) ==
    [timestamp |-> <<ToString(now)>>, method |-> method, url |-> url, body |-> body,
     headersOptions |-> headersOptions]

axiosConfig(frame) ==
    [method |-> frame.method,
     url |-> frame.url,
     data |-> IF Truthy(frame.body) THEN frame.body ELSE Undefined,
     headers |-> getRequestHeaders(frame.timestamp, frame.method, frame.url,
                                   OrEmpty(frame.body), frame.headersOptions)]

\* ------------------------------------------------------- request bodies
Ids == {Str(<<"u1">>), Str(<<"u2">>)}
GatewayIds == {Str(<<"gw1">>)}
WalletName == Str(<<"wallet-name">>)
WalletId == Str(<<"wallet-1">>)

ITokenRequest(scope) == Obj(<< <<"scope", scope>> >>)
ICreateManagedUserRequest(email) == Obj(<< <<"email", email>> >>)
IApproveUserToGatewayRequest ==
    Obj(<< <<"verified", Num(1)>>, <<"reasons", Arr(<<>>)>>,
           <<"customMessage", Bool(FALSE)>> >>)
ICreateWalletRequest(name) == Obj(<< <<"name", name>>, <<"type", HOSTED_WALLET_TYPE>> >>)
\* the shapes the callers pass through untouched
ICreateTransactionRequest(a) == Obj(<< <<"walletId", a>>, <<"amount", Num(1)>> >>)
ICreateCustomerRequest(a) == Obj(<< <<"walletAddress", a>> >>)
ICardDetailsRequest(a) == Obj(<< <<"cardId", a>>, <<"publicKeyBase64", Str(<<"pk">>)>> >>)

JsonObjects ==
    {ITokenRequest(DEFAULT_APP_SCOPE), ITokenRequest(ONBOARDING_APP_SCOPE),
     IApproveUserToGatewayRequest}
    \cup {ICreateManagedUserRequest(a) : a \in Ids}
    \cup {ICreateWalletRequest(WalletName)}
    \cup {ICreateTransactionRequest(a) : a \in Ids}
    \cup {ICreateCustomerRequest(a) : a \in Ids}
    \cup {ICardDetailsRequest(a) : a \in Ids}

\* JSON.parse(text): the object whose JSON text it is
JSONparse(text) == CHOOSE o \in JsonObjects : JSONtext(o) = text

\* ------------------------------------------------------------- logging
\* logger.debug(...), lines 401-404 (the indentation of the pretty-printed
\* response is left out of the text)
debugLog(frame, data) ==
    [level |-> "debug",
     message |-> <<"Axios ">> \o frame.method \o <<" request for ">> \o frame.url
                 \o <<" succeeded:\n ">> \o TemplateString(JSONstringify(data)),
     meta |-> IF Truthy(frame.body) THEN JSONparse(frame.body.v) ELSE Obj(<<>>)]

\* logger.error(...), lines 409-414
errorLog(frame, e) ==
    [level |-> "error",
     message |-> <<"Axios ">> \o frame.method \o <<" request for ">> \o frame.url
                 \o <<" failed with: ">>
                 \o TemplateString(IF Truthy(e.message) THEN e.message
                                   ELSE Get(e.response, "data")),
     meta |-> IF Truthy(frame.body) THEN JSONparse(frame.body.v) ELSE Obj(<<>>)]

\* ------------------------------------------------------------- errors
NoError == [name |-> "none", message |-> Undefined, response |-> Undefined]
AxiosError(message, response) ==
    [name |-> "AxiosError", message |-> message, response |-> response]
Error(message) == [name |-> "Error", message |-> Str(message), response |-> Undefined]
BadRequest(message) ==
    [name |-> "BadRequest", message |-> Str(message), response |-> Undefined]
TypeError(message) ==
    [name |-> "TypeError", message |-> Str(message), response |-> Undefined]

\* what the transport (axios) can throw
TransportErrors ==
    {AxiosError(Str(<<"Network Error">>), Undefined),
     AxiosError(Str(<<>>), Obj(<< <<"data", Str(<<"forbidden">>)>> >>)),
     Error(<<"socket hang up">>)}

\* ----------------------------------------------------------- invocations
IdleSlot ==
    [pc |-> "idle", op |-> "", args |-> <<>>, frames |-> <<>>, calls |-> <<>>,
     resps |-> <<>>, logs |-> <<>>, result |-> Undefined, error |-> NoError]

Free(s) == s.pc \in {"idle", "returned", "thrown"}
Begin(op, args) == [IdleSlot EXCEPT !.op = op, !.args = args, !.pc = "running"]
Return(s, value) == [s EXCEPT !.pc = "returned", !.result = value]
Throw(s, e) == [s EXCEPT !.pc = "thrown", !.error = e]

\* request(), lines 384-399: the call is handed to axios and awaited
Send(s, frame) ==
    [s EXCEPT !.pc = "awaiting",
              !.frames = Append(@, frame),
              !.calls = Append(@, axiosConfig(frame))]

LastFrame(s) == s.frames[Len(s.frames)]

\* request(), lines 401-406: axios resolved with res.data = data
requestResolved(s, data) ==
    [s EXCEPT !.pc = "running",
              !.resps = Append(@, [ok |-> TRUE, data |-> data, error |-> NoError]),
              !.logs = Append(@, debugLog(LastFrame(s), data))]

\* a mutant: the failure is logged and the call resolves with undefined
requestRejectedSwallowed(s, e) ==
    Return([s EXCEPT !.resps = Append(@, [ok |-> FALSE, data |-> Undefined, error |-> e]),
                     !.logs = IF e.name = "AxiosError"
                              THEN Append(@, errorLog(LastFrame(s), e))
                              ELSE @],
           Undefined)

\* request(), lines 407-417: axios threw e; no caller catches, so the public
\* method rejects with what request() throws
requestRejected(s, e) ==
    Throw([s EXCEPT !.resps = Append(@, [ok |-> FALSE, data |-> Undefined, error |-> e]),
                    !.logs = IF e.name = "AxiosError"
                             THEN Append(@, errorLog(LastFrame(s), e))
                             ELSE @],
          e)

\* ------------------------------------------------ single-request methods
updateEmailForManagedUser(email) ==
    requestFrame(<<"PUT">>, apiUrl \o <<"/auth/v1/users/managed/email">>,
                 JSONstringify(ICreateManagedUserRequest(email)), Undefined)

createManagedUser(email) ==
    requestFrame(<<"POST">>, apiUrl \o <<"/auth/v1/users/managed">>,
                 JSONstringify(ICreateManagedUserRequest(email)), Undefined)

getUserState(userId) ==
    requestFrame(<<"GET">>, apiUrl \o <<"/id/v1/users/">> \o TemplateString(userId),
                 Undefined, Undefined)

createWallet(managedUserUuid, name) ==
    requestFrame(<<"POST">>,
                 apiUrl \o <<"/core/v1/users/">> \o TemplateString(managedUserUuid)
                        \o <<"/wallets">>,
                 JSONstringify(ICreateWalletRequest(name)),
                 Obj(<< <<"managedUserUuid", managedUserUuid>> >>))

getWallet(userUuid, walletId) ==
    requestFrame(<<"GET">>,
                 apiUrl \o <<"/core/v1/users/">> \o TemplateString(userUuid)
                        \o <<"/wallets/">> \o TemplateString(walletId),
                 Undefined, Undefined)

getWalletBalance(walletId) ==
    requestFrame(<<"GET">>,
                 apiUrl \o <<"/core/v1/wallets/">> \o TemplateString(walletId)
                        \o <<"/balances">>,
                 Undefined, Undefined)

createTransaction(body) ==
    requestFrame(<<"POST">>, apiUrl \o <<"/core/v1/transactions">>,
                 JSONstringify(body), Undefined)

getVaults ==
    requestFrame(<<"GET">>, apiUrl \o <<"/rates/v1/liquidity_provider/vaults">>,
                 Undefined, Undefined)

fetchCardApplicationProducts ==
    requestFrame(<<"GET">>,
                 apiUrl \o <<"/v1/card-applications/">> \o env.GATEHUB_CARD_APP_ID
                        \o <<"/card-products">>,
                 Undefined, Undefined)

createCustomer(requestBody) ==
    requestFrame(<<"POST">>, apiUrl \o <<"/v1/customers">>, JSONstringify(requestBody),
                 Obj(<< <<"cardAppId", Str(env.GATEHUB_CARD_APP_ID)>> >>))

getCardsByCustomer(customerId) ==
    requestFrame(<<"GET">>,
                 apiUrl \o <<"/v1/customers/">> \o TemplateString(customerId)
                        \o <<"/cards">>,
                 Undefined, Undefined)

\* the methods that issue one request and return its response, and the
\* arguments each is invoked with here
SimpleArgs ==
    {<<"updateEmailForManagedUser", <<a>> >> : a \in Ids}
    \cup {<<"createManagedUser", <<a>> >> : a \in Ids}
    \cup {<<"getUserState", <<a>> >> : a \in Ids}
    \cup {<<"createWallet", <<a, WalletName>> >> : a \in Ids}
    \cup {<<"getWallet", <<a, WalletId>> >> : a \in Ids}
    \cup {<<"getWalletBalance", <<WalletId>> >>}
    \cup {<<"createTransaction", <<ICreateTransactionRequest(a)>> >> : a \in Ids}
    \cup {<<"createTransaction", <<Undefined>> >>}
    \cup {<<"getVaults", <<>> >>}
    \cup {<<"fetchCardApplicationProducts", <<>> >>}
    \cup {<<"createCustomer", <<ICreateCustomerRequest(a)>> >> : a \in Ids}
    \cup {<<"getCardsByCustomer", <<a>> >> : a \in Ids}

SimpleOps == {oa[1] : oa \in SimpleArgs}

SimpleRequest(op, args) ==
    CASE op = "updateEmailForManagedUser" -> updateEmailForManagedUser(args[1])
      [] op = "createManagedUser" -> createManagedUser(args[1])
      [] op = "getUserState" -> getUserState(args[1])
      [] op = "createWallet" -> createWallet(args[1], args[2])
      [] op = "getWallet" -> getWallet(args[1], args[2])
      [] op = "getWalletBalance" -> getWalletBalance(args[1])
      [] op = "createTransaction" -> createTransaction(args[1])
      [] op = "getVaults" -> getVaults
      [] op = "fetchCardApplicationProducts" -> fetchCardApplicationProducts
      [] op = "createCustomer" -> createCustomer(args[1])
      [] op = "getCardsByCustomer" -> getCardsByCustomer(args[1])

\* what the provider answers to a pass-through request
PassThroughData == {Obj(<< <<"id", Str(<<"r1">>)>> >>)}

InvokeSimple(p, op, args) ==
    /\ Free(inv[p])
    /\ inv' = [inv EXCEPT ![p] = Send(Begin(op, args), SimpleRequest(op, args))]
    /\ UNCHANGED <<env, clientIds, mainUrl, now, iframeCalls, tokenCalls>>

SimpleReturns(p, data) ==
    /\ inv[p].pc = "awaiting"
    /\ inv[p].op \in SimpleOps
    /\ inv' = [inv EXCEPT ![p] = Return(requestResolved(@, data), data)]
    /\ UNCHANGED <<env, clientIds, mainUrl, now, iframeCalls, tokenCalls>>

\* axios rejects the request a method is awaiting
RequestFails(p, e) ==
    /\ inv[p].pc = "awaiting"
    /\ inv' = [inv EXCEPT ![p] = requestRejected(@, e)]
    /\ UNCHANGED <<env, clientIds, mainUrl, now, iframeCalls, tokenCalls>>

\* ------------------------------------------------------------ iframes
Fn(name) == [t |-> "function", name |-> name]

\* iframeMappings, lines 49-57: a plain object literal of bound methods
iframeMappings ==
    << <<"deposit", Fn("getDepositUrl")>>,
       <<"withdrawal", Fn("getWithdrawalUrl")>>,
       <<"exchange", Fn("getExchangeUrl")>>,
       <<"onboarding", Fn("getOnboardingUrl")>> >>

\* what a plain object inherits from Object.prototype
ObjectPrototype ==
    << <<"toString", Fn("Object.prototype.toString")>>,
       <<"__proto__", Obj(<<>>)>> >>

\* obj[key] with the prototype chain of an object literal
Lookup(pairs, key) ==
    IF \E i \in 1..Len(pairs) : pairs[i][1] = key
    THEN Get(Obj(pairs), key)
    ELSE Get(Obj(ObjectPrototype), key)

\* IFRAME_TYPE: the keys of the Record iframeMappings is; and the kinds
\* getIframeUrl is invoked with: those and strings outside the type
IFRAME_TYPE == {iframeMappings[i][1] : i \in 1..Len(iframeMappings)}
IframeTypes == IFRAME_TYPE \cup {"card", "toString", "__proto__"}

getIframeAuthorizationToken(clientId, scope, managedUserUuid) ==
    requestFrame(<<"POST">>,
                 apiUrl \o <<"/auth/v1/tokens", "?", "clientId", "=">> \o clientId,
                 JSONstringify(ITokenRequest(scope)),
                 Obj(<< <<"managedUserUuid", managedUserUuid>> >>))

\* the token request of each handler, lines 89-93, 99-103, 109-113, 119-123
getWithdrawalUrlToken(managedUserUuid) ==
    getIframeAuthorizationToken(clientIds.onOffRamp, DEFAULT_APP_SCOPE, managedUserUuid)
getDepositUrlToken(managedUserUuid) ==
    getIframeAuthorizationToken(clientIds.onOffRamp, DEFAULT_APP_SCOPE, managedUserUuid)
getOnboardingUrlToken(managedUserUuid) ==
    getIframeAuthorizationToken(clientIds.onboarding, ONBOARDING_APP_SCOPE,
                                managedUserUuid)
\* a mutant: the exchange iframe asks with the ramp client id
getExchangeUrlTokenOnOffRamp(managedUserUuid) ==
    getIframeAuthorizationToken(clientIds.onOffRamp, DEFAULT_APP_SCOPE, managedUserUuid)
getExchangeUrlToken(managedUserUuid) ==
    getIframeAuthorizationToken(clientIds.exchange, DEFAULT_APP_SCOPE, managedUserUuid)

\* the URL each handler returns, lines 95, 105, 115, 125
getWithdrawalUrl(token) ==
    rampUrl \o <<"/", "?", "paymentType", "=">> \o PAYMENT_TYPE.withdrawal
            \o <<"&", "bearer", "=">> \o TemplateString(token)
\* a mutant: the URL carries a token kept from an earlier call
getDepositUrlStaleToken(token) ==
    rampUrl \o <<"/", "?", "paymentType", "=">> \o PAYMENT_TYPE.deposit
            \o <<"&", "bearer", "=">> \o <<"tok1">>
getDepositUrl(token) ==
    rampUrl \o <<"/", "?", "paymentType", "=">> \o PAYMENT_TYPE.deposit
            \o <<"&", "bearer", "=">> \o TemplateString(token)
getOnboardingUrl(token) ==
    onboardingUrl \o <<"/", "?", "bearer", "=">> \o TemplateString(token)
getExchangeUrl(token) ==
    exchangeUrl \o <<"/", "?", "bearer", "=">> \o TemplateString(token)

HandlerRequest(handler, managedUserUuid) ==
    CASE handler.name = "getDepositUrl" -> getDepositUrlToken(managedUserUuid)
      [] handler.name = "getWithdrawalUrl" -> getWithdrawalUrlToken(managedUserUuid)
      [] handler.name = "getExchangeUrl" -> getExchangeUrlToken(managedUserUuid)
      [] handler.name = "getOnboardingUrl" -> getOnboardingUrlToken(managedUserUuid)

HandlerResult(handler, token) ==
    CASE handler.name = "getDepositUrl" -> getDepositUrl(token)
      [] handler.name = "getWithdrawalUrl" -> getWithdrawalUrl(token)
      [] handler.name = "getExchangeUrl" -> getExchangeUrl(token)
      [] handler.name = "getOnboardingUrl" -> getOnboardingUrl(token)

\* getIframeUrl, lines 128-137, up to its first await
getIframeUrl(type, managedUserUuid) ==
    LET s == Begin("getIframeUrl", <<Str(<<type>>), managedUserUuid>>)
        handler == Lookup(iframeMappings, type)
    IN  IF ~Truthy(handler)
        THEN Throw(s, BadRequest(<<"Invalid iframe type">>))
        ELSE IF handler.t # "function"
        THEN Throw(s, TypeError(<<"this.iframeMappings[type] is not a function">>))
        ELSE IF handler.name = "Object.prototype.toString"
        THEN Return(s, Str(<<"[object Object]">>))
        ELSE Send(s, HandlerRequest(handler, managedUserUuid))

IsTokenEndpoint(url) ==
    Len(url) >= 3 /\ SubSeq(url, 1, 3) = apiUrl \o <<"/auth/v1/tokens">>

TokenRequests(s) == Cardinality({i \in 1..Len(s.calls) : IsTokenEndpoint(s.calls[i].url)})

Tokens == {<<"tok1">>, <<"tok2">>}
ITokenResponse == {Obj(<< <<"token", Str(t)>> >>) : t \in Tokens}

InvokeIframe(p, type, managedUserUuid) ==
    /\ Free(inv[p])
    /\ type \in IFRAME_TYPE => iframeCalls < MaxIframeCalls
    /\ inv' = [inv EXCEPT ![p] = getIframeUrl(type, managedUserUuid)]
    /\ iframeCalls' = iframeCalls + (IF type \in IFRAME_TYPE THEN 1 ELSE 0)
    /\ tokenCalls' = tokenCalls + TokenRequests(inv'[p])
    /\ UNCHANGED <<env, clientIds, mainUrl, now>>

IframeTokenReturns(p, response) ==
    /\ inv[p].pc = "awaiting"
    /\ inv[p].op = "getIframeUrl"
    /\ inv' = [inv EXCEPT ![p] =
                 Return(requestResolved(@, response),
                        Str(HandlerResult(Lookup(iframeMappings, @.args[1].v[1]),
                                          Get(response, "token"))))]
    /\ UNCHANGED <<env, clientIds, mainUrl, now, iframeCalls, tokenCalls>>

\* ------------------------------------------------------------ gateway
connectUserToGateway(managedUserUuid, gatewayUuid) ==
    requestFrame(<<"POST">>,
                 apiUrl \o <<"/id/v1/users/">> \o TemplateString(managedUserUuid)
                        \o <<"/hubs/">> \o TemplateString(gatewayUuid),
                 Undefined,
                 Obj(<< <<"managedUserUuid", managedUserUuid>> >>))

approveUserToGateway(userUuid, gatewayUuid) ==
    requestFrame(<<"PUT">>,
                 apiUrl \o <<"/id/v1/hubs/">> \o TemplateString(gatewayUuid)
                        \o <<"/users/">> \o TemplateString(userUuid),
                 JSONstringify(IApproveUserToGatewayRequest),
                 Undefined)

\* lines 205-212, after the connect request resolved
connectResolved(s) ==
    IF ~isProduction
    THEN Send(s, approveUserToGateway(s.args[1], s.args[2]))
    ELSE Return(s, Bool(FALSE))

InvokeConnect(p, managedUserUuid, gatewayUuid) ==
    /\ Free(inv[p])
    /\ inv' = [inv EXCEPT ![p] =
                 Send(Begin("connectUserToGateway", <<managedUserUuid, gatewayUuid>>),
                      connectUserToGateway(managedUserUuid, gatewayUuid))]
    /\ UNCHANGED <<env, clientIds, mainUrl, now, iframeCalls, tokenCalls>>

ConnectReturns(p, data) ==
    /\ inv[p].pc = "awaiting"
    /\ inv[p].op = "connectUserToGateway"
    /\ Len(inv[p].calls) = 1
    /\ inv' = [inv EXCEPT ![p] = connectResolved(requestResolved(@, data))]
    /\ UNCHANGED <<env, clientIds, mainUrl, now, iframeCalls, tokenCalls>>

ApproveReturns(p, data) ==
    /\ inv[p].pc = "awaiting"
    /\ inv[p].op = "connectUserToGateway"
    /\ Len(inv[p].calls) = 2
    /\ inv' = [inv EXCEPT ![p] = Return(requestResolved(@, data), Bool(TRUE))]
    /\ UNCHANGED <<env, clientIds, mainUrl, now, iframeCalls, tokenCalls>>

\* -------------------------------------------------------------- rates
Digits == [d \in {"0", "1", "2", "3", "4", "5", "6", "7", "8", "9"} |->
             CASE d = "0" -> 0 [] d = "1" -> 1 [] d = "2" -> 2 [] d = "3" -> 3
               [] d = "4" -> 4 [] d = "5" -> 5 [] d = "6" -> 6 [] d = "7" -> 7
               [] d = "8" -> 8 [] OTHER -> 9]

RECURSIVE DecimalValue(_)
DecimalValue(chars) ==
    IF chars = <<>> THEN 0
    ELSE 10 * DecimalValue(SubSeq(chars, 1, Len(chars) - 1)) + Digits[chars[Len(chars)]]

\* +x: a string of decimal digits is its value, '' is 0, anything else NaN
ToNumber(x) ==
    CASE x.t = "number" -> x
      [] x.t = "string" ->
            IF \A i \in 1..Len(x.v) : x.v[i] \in DOMAIN Digits
            THEN Num(DecimalValue(x.v))
            ELSE NaN
      [] x.t = "boolean" -> IF x.v THEN Num(1) ELSE Num(0)
      [] OTHER -> NaN

\* flatRates[code] = value
SetProp(obj, key, value) ==
    IF \E i \in 1..Len(obj.v) : obj.v[i][1] = key
    THEN Obj([i \in 1..Len(obj.v) |->
                 IF obj.v[i][1] = key THEN <<key, value>> ELSE obj.v[i]])
    ELSE Obj(Append(obj.v, <<key, value>>))

\* the loop of getRates, lines 303-311, from the i-th supported code on
RECURSIVE flatRatesFrom(_, _, _)
flatRatesFrom(response, i, flatRates) ==
    IF i > Len(SUPPORTED_ASSET_CODES) THEN flatRates
    ELSE LET code == SUPPORTED_ASSET_CODES[i]
             rateObj == Get(response, code)
         IN  flatRatesFrom(response, i + 1,
                 IF Truthy(rateObj) /\ TypeOf(rateObj) # "string"
                 THEN SetProp(flatRates, code, ToNumber(Get(rateObj, "rate")))
                 ELSE flatRates)

\* a mutant: the loop without the string test
RECURSIVE flatRatesAnyQuote(_, _, _)
flatRatesAnyQuote(response, i, flatRates) ==
    IF i > Len(SUPPORTED_ASSET_CODES) THEN flatRates
    ELSE LET code == SUPPORTED_ASSET_CODES[i]
             rateObj == Get(response, code)
         IN  flatRatesAnyQuote(response, i + 1,
                 IF Truthy(rateObj)
                 THEN SetProp(flatRates, code, ToNumber(Get(rateObj, "rate")))
                 ELSE flatRates)

flatRatesOfAnyQuote(response) == flatRatesAnyQuote(response, 1, Obj(<<>>))

flatRatesOf(response) == flatRatesFrom(response, 1, Obj(<<>>))

getRates(base) ==
    requestFrame(<<"GET">>,
                 apiUrl \o <<"/rates/v1/rates/current", "?", "counter", "=">>
                        \o TemplateString(base)
                        \o <<"&", "amount", "=", "1", "&", "useAll", "=", "true">>,
                 Undefined, Undefined)

\* what the provider quotes for one code: nothing, a string in place of a
\* rate, or a rate object
RateCodes == <<"USD", "EUR", "XRP">>
IRate(rate) == Obj(<< <<"type", Str(<<"direct">>)>>, <<"rate", Str(rate)>> >>)
Quotes == {Undefined, Str(<<"n/a">>), IRate(<<"1", "2">>), IRate(<<"7">>)}

RECURSIVE ratesObject(_, _)
ratesObject(quote, i) ==
    IF i > Len(RateCodes) THEN <<>>
    ELSE (IF quote[i] = Undefined THEN <<>> ELSE << <<RateCodes[i], quote[i]>> >>)
         \o ratesObject(quote, i + 1)

IRatesResponse == {Obj(ratesObject(q, 1)) : q \in [1..Len(RateCodes) -> Quotes]}

InvokeRates(p, base) ==
    /\ Free(inv[p])
    /\ inv' = [inv EXCEPT ![p] = Send(Begin("getRates", <<base>>), getRates(base))]
    /\ UNCHANGED <<env, clientIds, mainUrl, now, iframeCalls, tokenCalls>>

RatesReturns(p, response) ==
    /\ inv[p].pc = "awaiting"
    /\ inv[p].op = "getRates"
    /\ inv' = [inv EXCEPT ![p] =
                 Return(requestResolved(@, response), flatRatesOf(response))]
    /\ UNCHANGED <<env, clientIds, mainUrl, now, iframeCalls, tokenCalls>>

\* -------------------------------------------------------- card details
cardTokenRequest(requestBody) ==
    requestFrame(<<"POST">>, apiUrl \o <<"/token/card-data">>,
                 JSONstringify(requestBody),
                 Obj(<< <<"cardAppId", Str(env.GATEHUB_CARD_APP_ID)>> >>))

cardDetailsRequest(token) ==
    requestFrame(<<"GET">>, apiUrl \o <<"/v1/proxy/client-device/card-data">>,
                 Undefined,
                 Obj(<< <<"token", token>> >>))

\* a mutant: only an absent token counts as missing
tokenMissingOnlyUndefined(token) == token.t = "undefined"

\* if (!token)
tokenMissing(token) == ~Truthy(token)

\* lines 354-369, after the token request resolved with response
cardTokenResolved(s, response) ==
    LET token == Get(response, "token")
    IN  IF tokenMissing(token)
        THEN Throw(s, Error(<<"Failed to obtain token for card data retrieval">>))
        ELSE Send(s, cardDetailsRequest(token))

ILinksResponse ==
    {Obj(<< <<"token", Str(t)>> >>) : t \in Tokens \cup {<<>>}}
    \cup {Obj(<< <<"links", Arr(<<>>)>> >>)}
ICardDetailsResponse == {Obj(<< <<"cipher", Str(<<"encrypted-card-data">>)>> >>)}

InvokeCardDetails(p, requestBody) ==
    /\ Free(inv[p])
    /\ inv' = [inv EXCEPT ![p] =
                 Send(Begin("getCardDetails", <<requestBody>>),
                      cardTokenRequest(requestBody))]
    /\ UNCHANGED <<env, clientIds, mainUrl, now, iframeCalls, tokenCalls>>

CardTokenReturns(p, response) ==
    /\ inv[p].pc = "awaiting"
    /\ inv[p].op = "getCardDetails"
    /\ Len(inv[p].calls) = 1
    /\ inv' = [inv EXCEPT ![p] = cardTokenResolved(requestResolved(@, response), response)]
    /\ UNCHANGED <<env, clientIds, mainUrl, now, iframeCalls, tokenCalls>>

CardDataReturns(p, response) ==
    /\ inv[p].pc = "awaiting"
    /\ inv[p].op = "getCardDetails"
    /\ Len(inv[p].calls) = 2
    /\ inv' = [inv EXCEPT ![p] = Return(requestResolved(@, response), response)]
    /\ UNCHANGED <<env, clientIds, mainUrl, now, iframeCalls, tokenCalls>>

\* ----------------------------------------------- request() on its own
HTTP_METHODS == {<<"GET">>, <<"POST">>, <<"PUT">>}
RequestUrls == {apiUrl \o <<"/core/v1/transactions">>, apiUrl \o <<"/v1/customers">>}
RequestBodies ==
    {Undefined, Str(<<>>)} \cup {JSONstringify(ICreateCustomerRequest(a)) : a \in Ids}
RequestOptions ==
    {Undefined,
     Obj(<< <<"managedUserUuid", Str(<<"u1">>)>> >>),
     Obj(<< <<"cardAppId", Str(GATEHUB_CARD_APP_ID)>> >>),
     Obj(<< <<"token", Str(<<"tok1">>)>> >>)}

InvokeRequest(p, method, url, body, headersOptions) ==
    /\ Free(inv[p])
    /\ inv' = [inv EXCEPT ![p] =
                 Send(Begin("request", <<method, url, body, headersOptions>>),
                      requestFrame(method, url, body, headersOptions))]
    /\ UNCHANGED <<env, clientIds, mainUrl, now, iframeCalls, tokenCalls>>

RequestReturns(p, data) ==
    /\ inv[p].pc = "awaiting"
    /\ inv[p].op = "request"
    /\ inv' = [inv EXCEPT ![p] = Return(requestResolved(@, data), data)]
    /\ UNCHANGED <<env, clientIds, mainUrl, now, iframeCalls, tokenCalls>>

\* time passes
Tick ==
    /\ now < MaxClock
    /\ now' = now + 1
    /\ UNCHANGED <<env, clientIds, mainUrl, inv, iframeCalls, tokenCalls>>

\* the constructor, lines 46-47 and 58-66
Constructed(nodeEnv) ==
    /\ env = [NODE_ENV |-> nodeEnv,
              GATEHUB_ACCESS_KEY |-> GATEHUB_ACCESS_KEY,
              GATEHUB_SECRET_KEY |-> GATEHUB_SECRET_KEY,
              GATEHUB_CARD_APP_ID |-> GATEHUB_CARD_APP_ID]
    /\ clientIds = IF isProduction THEN PRODUCTION_CLIENT_IDS ELSE SANDBOX_CLIENT_IDS
    /\ mainUrl = IF isProduction THEN "gatehub.net" ELSE "sandbox.gatehub.net"

Init ==
    /\ \E nodeEnv \in NodeEnvs : Constructed(nodeEnv)
    /\ now = 0
    /\ inv = [p \in Procs |-> IdleSlot]
    /\ iframeCalls = 0
    /\ tokenCalls = 0

\* one invocation at a time, of any public method
Next ==
    \/ Tick
    \/ \E oa \in SimpleArgs : InvokeSimple(1, oa[1], oa[2])
    \/ \E data \in PassThroughData : SimpleReturns(1, data)
    \/ \E e \in TransportErrors : RequestFails(1, e)
    \/ \E type \in IframeTypes, u \in Ids : InvokeIframe(1, type, u)
    \/ \E response \in ITokenResponse : IframeTokenReturns(1, response)
    \/ \E u \in Ids, g \in GatewayIds : InvokeConnect(1, u, g)
    \/ \E data \in PassThroughData : ConnectReturns(1, data)
    \/ \E data \in PassThroughData : ApproveReturns(1, data)
    \/ \E base \in {Str(<<"USD">>)} : InvokeRates(1, base)
    \/ \E response \in IRatesResponse : RatesReturns(1, response)
    \/ \E a \in Ids : InvokeCardDetails(1, ICardDetailsRequest(a))
    \/ \E response \in ILinksResponse : CardTokenReturns(1, response)
    \/ \E response \in ICardDetailsResponse : CardDataReturns(1, response)

Spec == Init /\ [][Next]_vars

\* getIframeUrl invocations that overlap, within one reading of the clock
NextIframes ==
    \/ \E p \in Procs :
        \/ \E type \in IframeTypes, u \in Ids : InvokeIframe(p, type, u)
        \/ \E response \in ITokenResponse : IframeTokenReturns(p, response)
        \/ \E e \in TransportErrors : RequestFails(p, e)

SpecIframes == Init /\ [][NextIframes]_vars

\* request() with any arguments
NextRequest ==
    \/ Tick
    \/ \E method \in HTTP_METHODS, url \in RequestUrls, body \in RequestBodies,
          headersOptions \in RequestOptions :
            InvokeRequest(1, method, url, body, headersOptions)
    \/ \E data \in PassThroughData : RequestReturns(1, data)
    \/ \E e \in TransportErrors : RequestFails(1, e)

SpecRequest == Init /\ [][NextRequest]_vars

\* ================================================================ claims
Sandbox == env.NODE_ENV # "production"
Host == IF env.NODE_ENV = "production" THEN "gatehub.net" ELSE "sandbox.gatehub.net"
SignatureHeaders == {"x-gatehub-app-id", "x-gatehub-timestamp", "x-gatehub-signature"}

ConnectUrl(s) ==
    <<"https://api.", Host, "/id/v1/users/">> \o s.args[1].v \o <<"/hubs/">> \o s.args[2].v
ApproveUrl(s) ==
    <<"https://api.", Host, "/id/v1/hubs/">> \o s.args[2].v \o <<"/users/">> \o s.args[1].v
IsConnect(c, s) == c.method = <<"POST">> /\ c.url = ConnectUrl(s)
IsApprove(c, s) == c.method = <<"PUT">> /\ c.url = ApproveUrl(s)

\* C1: connectUserToGateway, when no call fails, performs in a sandbox
\* environment exactly two calls, the connect POST then the approve PUT, and
\* returns true; in production exactly one call, the connect POST, never the
\* approve PUT, and returns false.
C1_ConnectThenApprove ==
    \A p \in Procs :
        LET s == inv[p] IN
        s.op = "connectUserToGateway" =>
            /\ Len(s.calls) >= 1 => IsConnect(s.calls[1], s)
            /\ Len(s.calls) >= 2 => IsApprove(s.calls[2], s)
            /\ ~Sandbox => \A i \in 1..Len(s.calls) : s.calls[i].method # <<"PUT">>
            /\ s.pc = "returned" =>
                 IF Sandbox
                 THEN Len(s.calls) = 2 /\ s.result = Bool(TRUE)
                 ELSE Len(s.calls) = 1 /\ s.result = Bool(FALSE)

C1_Witness ==
    \E p \in Procs :
        /\ inv[p].op = "connectUserToGateway"
        /\ inv[p].pc = "returned"
        /\ env.NODE_ENV = "test"
        /\ Len(inv[p].calls) = 2
        /\ inv[p].result = Bool(TRUE)

\* C2: as soon as one HTTP call of a public method fails, the method issues
\* no further HTTP call and fails to the caller with that same error.
C2_FailFast ==
    \A p \in Procs :
        LET s == inv[p] IN
        \A i \in 1..Len(s.resps) :
            ~s.resps[i].ok =>
                /\ i = Len(s.calls)
                /\ s.pc = "thrown"
                /\ s.error = s.resps[i].error

C2_Witness ==
    \E p \in Procs :
        /\ inv[p].op = "connectUserToGateway"
        /\ Sandbox
        /\ Len(inv[p].resps) = 1
        /\ ~inv[p].resps[1].ok
        /\ inv[p].pc = "thrown"
        /\ Len(inv[p].calls) = 1

\* ---- reading a URL back: new URL(url).searchParams
IndexOf(text, atom) ==
    IF \E i \in 1..Len(text) : text[i] = atom
    THEN CHOOSE i \in 1..Len(text) : text[i] = atom /\ \A j \in 1..(i - 1) : text[j] # atom
    ELSE 0

RECURSIVE SplitOn(_, _)
SplitOn(text, atom) ==
    LET i == IndexOf(text, atom)
    IN  IF i = 0 THEN <<text>>
        ELSE <<SubSeq(text, 1, i - 1)>> \o SplitOn(SubSeq(text, i + 1, Len(text)), atom)

PathOf(url) ==
    LET i == IndexOf(url, "?") IN IF i = 0 THEN url ELSE SubSeq(url, 1, i - 1)

SearchParams(url) ==
    LET i == IndexOf(url, "?")
        parts == IF i = 0 \/ i = Len(url) THEN <<>>
                 ELSE SplitOn(SubSeq(url, i + 1, Len(url)), "&")
    IN  [k \in 1..Len(parts) |->
            LET j == IndexOf(parts[k], "=")
            IN  IF j = 0 THEN <<parts[k], <<>> >>
                ELSE <<SubSeq(parts[k], 1, j - 1), SubSeq(parts[k], j + 1, Len(parts[k]))>>]

ParamValues(url, name) ==
    LET ps == SearchParams(url)
    IN  [v \in {ps[k][2] : k \in {k \in 1..Len(ps) : ps[k][1] = <<name>>}} |->
            Cardinality({k \in 1..Len(ps) : ps[k][1] = <<name>> /\ ps[k][2] = v})]

\* exactly one parameter of that name, with that value
OneParam(url, name, value) ==
    LET vs == ParamValues(url, name) IN DOMAIN vs = {value} /\ vs[value] = 1

Contains(text, part) ==
    \E k \in 1..(Len(text) - Len(part) + 1) : SubSeq(text, k, k + Len(part) - 1) = part

IframeKind(s) == s.args[1].v[1]
IsIframe(s) == s.op = "getIframeUrl" /\ IframeKind(s) \in IFRAME_TYPE

\* C3: getIframeUrl called with any kind other than deposit, withdrawal,
\* exchange or onboarding fails at once with a bad-request error, and no HTTP
\* call is attempted.
C3_UnknownKindRejected ==
    \A p \in Procs :
        LET s == inv[p] IN
        (s.op = "getIframeUrl" /\ IframeKind(s) \notin IFRAME_TYPE) =>
            /\ s.pc = "thrown"
            /\ s.error.name = "BadRequest"
            /\ s.calls = <<>>

\* C4: getCardDetails fails with an error whenever the token POST answers
\* without a token (absent or empty) and then never attempts the card-data
\* GET; a card-data GET is only issued after the token POST of the same
\* invocation returned a token.
IsCardDataGet(c) ==
    c.method = <<"GET">> /\ c.url = <<"https://api.", Host, "/v1/proxy/client-device/card-data">>

C4_NoTokenNoFetch ==
    \A p \in Procs :
        LET s == inv[p] IN
        s.op = "getCardDetails" =>
            /\ (Len(s.resps) >= 1 /\ s.resps[1].ok
                  /\ Get(s.resps[1].data, "token") \in {Undefined, Str(<<>>)})
               => (s.pc = "thrown" /\ s.error.name = "Error" /\ Len(s.calls) = 1)
            /\ \A i \in 1..Len(s.calls) :
                 IsCardDataGet(s.calls[i]) =>
                    /\ i = 2
                    /\ s.resps[1].ok
                    /\ Get(s.resps[1].data, "token") \in {Str(t) : t \in Tokens}
            /\ Len(s.calls) <= 2
            /\ Len(s.calls) = 2 => IsCardDataGet(s.calls[2])

C4_Witness ==
    \E p \in Procs :
        /\ inv[p].op = "getCardDetails"
        /\ inv[p].pc = "thrown"
        /\ Len(inv[p].resps) = 1
        /\ inv[p].resps[1].ok
        /\ Get(inv[p].resps[1].data, "token") = Str(<<>>)
        /\ Len(inv[p].calls) = 1

\* C5: iframe tokens are never cached or reused: after N getIframeUrl calls
\* with recognized kinds the token endpoint has been invoked exactly N times,
\* once per call, and each returned URL embeds the token its own token
\* request returned.
C5_FreshTokenPerCall ==
    /\ tokenCalls = iframeCalls
    /\ \A p \in Procs :
        LET s == inv[p] IN
        IsIframe(s) =>
            /\ Len(s.calls) = 1
            /\ s.calls[1].url[3] = "/auth/v1/tokens"
            /\ s.pc = "returned" =>
                 OneParam(s.result.v, "bearer", Get(s.resps[1].data, "token").v)

C5_Witness ==
    /\ tokenCalls = 2
    /\ inv[1].pc = "returned" /\ inv[2].pc = "returned"
    /\ IsIframe(inv[1]) /\ IsIframe(inv[2])
    /\ inv[1].args = inv[2].args
    /\ IframeKind(inv[1]) = "deposit"
    /\ Get(inv[1].resps[1].data, "token") = Str(<<"tok1">>)
    /\ Get(inv[2].resps[1].data, "token") = Str(<<"tok2">>)

\* C6 (as claimed): the signature of every request is over
\* timestamp|METHOD|url|body when a body is passed, the empty string
\* included, and over timestamp|METHOD|url when none is.
SignedText(c) == c.headers["x-gatehub-signature"].msg
SigningBase(c) ==
    c.headers["x-gatehub-timestamp"] \o <<"|">> \o c.method \o <<"|">> \o c.url

C7_BearerOrSignature ==
    \A p \in Procs :
        \A i \in 1..Len(inv[p].calls) :
            LET h == inv[p].calls[i].headers IN
            IF IsCardDataGet(inv[p].calls[i])
            THEN "Authorization" \in DOMAIN h /\ SignatureHeaders \cap DOMAIN h = {}
            ELSE SignatureHeaders \subseteq DOMAIN h /\ "Authorization" \notin DOMAIN h

\* C7 (amended): every outbound call carries the signature headers (app id,
\* timestamp, signature); the card-data GET of getCardDetails carries in
\* addition Authorization: Bearer <token>, the token its token POST returned,
\* and every other call carries no Authorization header.
C7_SignatureAlwaysBearerOnCardData ==
    \A p \in Procs :
        \A i \in 1..Len(inv[p].calls) :
            LET h == inv[p].calls[i].headers IN
            /\ SignatureHeaders \subseteq DOMAIN h
            /\ IF IsCardDataGet(inv[p].calls[i])
               THEN /\ "Authorization" \in DOMAIN h
                    /\ h["Authorization"]
                         = <<"Bearer ">> \o Get(inv[p].resps[1].data, "token").v
               ELSE "Authorization" \notin DOMAIN h

C7_Witness ==
    \E p \in Procs :
        /\ inv[p].op = "getCardDetails"
        /\ Len(inv[p].calls) = 2
        /\ IsCardDataGet(inv[p].calls[2])
        /\ inv[p].calls[2].headers["Authorization"] = <<"Bearer ", "tok2">>

\* C8: the single-use token of getCardDetails' first hop is never logged and
\* never cached: no message passed to the logger contains it and no field of
\* the client holds it.
C8_CardTokenNeverLogged ==
    \A p \in Procs :
        LET s == inv[p] IN
        (s.op = "getCardDetails" /\ Len(s.resps) >= 1 /\ s.resps[1].ok
           /\ Get(s.resps[1].data, "token") \in {Str(t) : t \in Tokens}) =>
            LET token == Get(s.resps[1].data, "token").v IN
            /\ \A k \in 1..Len(s.logs) : ~Contains(s.logs[k].message, token)
            /\ mainUrl # token[1]
            /\ \A f \in DOMAIN clientIds : clientIds[f] # token
            /\ env.NODE_ENV # token[1]
            /\ token \notin {env.GATEHUB_ACCESS_KEY, env.GATEHUB_SECRET_KEY,
                              env.GATEHUB_CARD_APP_ID}

\* C9: getIframeUrl for each recognized kind asks for its token with the
\* client id (of the active environment's set) and the scope of that kind and
\* the caller's user in the managed-user-uuid header; the returned URL has
\* the form of its kind and exactly one bearer parameter, the token returned.
ActiveClientIds == IF env.NODE_ENV = "production" THEN PRODUCTION_CLIENT_IDS
                   ELSE SANDBOX_CLIENT_IDS
KindClientId(kind) ==
    CASE kind \in {"deposit", "withdrawal"} -> ActiveClientIds.onOffRamp
      [] kind = "exchange" -> ActiveClientIds.exchange
      [] kind = "onboarding" -> ActiveClientIds.onboarding
KindScope(kind) ==
    IF kind = "onboarding" THEN <<"[", "\"", "onboarding-scope", "\"", "]">>
    ELSE <<"[", "\"", "default-scope", "\"", "]">>
KindPath(kind) ==
    CASE kind \in {"deposit", "withdrawal"} -> <<"https://managed-ramp.", Host, "/">>
      [] kind = "exchange" -> <<"https://exchange.", Host, "/">>
      [] kind = "onboarding" -> <<"https://onboarding.", Host, "/">>

C9_IframeRequestAndUrl ==
    \A p \in Procs :
        LET s == inv[p] IN
        IsIframe(s) =>
            LET kind == IframeKind(s)
                c == s.calls[1]
            IN  /\ c.method = <<"POST">>
                /\ c.url = <<"https://api.", Host, "/auth/v1/tokens", "?", "clientId", "=">>
                           \o KindClientId(kind)
                /\ c.data = Str(<<"{", "\"", "scope", "\"", ":">> \o KindScope(kind)
                                \o <<"}">>)
                /\ "x-gatehub-managed-user-uuid" \in DOMAIN c.headers
                /\ c.headers["x-gatehub-managed-user-uuid"] = s.args[2].v
                /\ s.pc = "returned" =>
                     LET url == s.result.v IN
                     /\ PathOf(url) = KindPath(kind)
                     /\ OneParam(url, "bearer", Get(s.resps[1].data, "token").v)
                     /\ IF kind \in {"deposit", "withdrawal"}
                        THEN OneParam(url, "paymentType", <<kind>>)
                             /\ Len(SearchParams(url)) = 2
                        ELSE Len(SearchParams(url)) = 1

C9_Witness ==
    \E p \in Procs :
        /\ IsIframe(inv[p])
        /\ IframeKind(inv[p]) = "exchange"
        /\ env.NODE_ENV = "production"
        /\ inv[p].pc = "returned"
        /\ inv[p].result
             = Str(<<"https://exchange.", "gatehub.net", "/", "?", "bearer", "=", "tok2">>)

\* C10: getRates returns a mapping whose keys are exactly the supported
\* asset codes present in the response with a rate object; unsupported
\* codes, absent codes and codes quoted as a string are left out, and each
\* value is the number coerced from the code's rate string.
RateNumber(rate) ==
    CASE rate = <<"1", "2">> -> Num(12)
      [] rate = <<"7">> -> Num(7)
      [] OTHER -> NaN
Supported == {SUPPORTED_ASSET_CODES[i] : i \in 1..Len(SUPPORTED_ASSET_CODES)}
Keys(obj) == {obj.v[i][1] : i \in 1..Len(obj.v)}

C10_RatesOfSupportedCodes ==
    \A p \in Procs :
        LET s == inv[p] IN
        (s.op = "getRates" /\ s.pc = "returned") =>
            LET response == s.resps[1].data
                quoted == {code \in Supported : Get(response, code).t = "object"}
            IN  /\ Keys(s.result) = quoted
                /\ Len(s.result.v) = Cardinality(quoted)
                /\ \A code \in quoted :
                     Get(s.result, code) = RateNumber(Get(Get(response, code), "rate").v)

C10_Witness ==
    \E p \in Procs :
        /\ inv[p].op = "getRates"
        /\ inv[p].pc = "returned"
        /\ Get(inv[p].resps[1].data, "USD") = Str(<<"n/a">>)
        /\ Get(inv[p].resps[1].data, "EUR").t = "object"
        /\ Get(inv[p].resps[1].data, "XRP").t = "object"
        /\ inv[p].result = Obj(<< <<"EUR", Num(12)>> >>)

====
